---- MODULE Spec2Model ----
(***************************************************************************)
(* Model of the Socket.io core of backend/src/server.js: the handlers      *)
(* registered in io.on("connection") for authenticate, send_message,       *)
(* typing and disconnect, the connectedUsers map and the Message           *)
(* collection.  Every await of a handler is a suspension point: the part   *)
(* of a handler between two awaits is one action.                          *)
(***************************************************************************)
EXTENDS Naturals, Sequences, FiniteSets

(* ---------------------------- bounds ----------------------------------- *)
MaxConn == 2        \* sockets that connect during a run
MaxEvents == 3      \* inbound events (authenticate, send_message, typing) of a run
MaxAuth == 2        \* authenticate events among them
MaxSend == 2        \* send_message events among them
MaxTyping == 1      \* typing events among them
MaxLiveEvents == 2  \* inbound events of a run of LiveSpec
InitStored == 49    \* documents already in the Message collection at start

(* ---------------------------- constants -------------------------------- *)
HistoryLimit == 50  \* .limit(50) of the history query

Conn == 1..MaxConn

None == "none"                       \* an unset socket.userId / socket.nickname
UserTable == {"u1", "u2"}            \* the ids the server issued tokens for
Nick(u) == IF u = "u1" THEN "alice" ELSE "bob"    \* the nickname of a User

(* A token: signed with JWT_SECRET or not, expired or not, carrying an id. *)
Tokens ==
    { [sig |-> TRUE,  expired |-> FALSE, id |-> "u1"],
      [sig |-> TRUE,  expired |-> FALSE, id |-> "u2"],
      [sig |-> TRUE,  expired |-> TRUE,  id |-> "u1"],
      [sig |-> FALSE, expired |-> FALSE, id |-> "u1"] }

(* jwt.verify(token, JWT_SECRET): the decoded id, or None when it throws.  *)
JwtVerify(token) ==
    IF token.sig /\ ~token.expired THEN token.id ELSE None

(* Message texts a client can put in messageData.text.                     *)
Texts == { <<>>, <<" ">>, <<" ", "h">> }

RECURSIVE TrimLeft(_)
TrimLeft(s) ==
    IF s # <<>> /\ Head(s) = " " THEN TrimLeft(Tail(s)) ELSE s

RECURSIVE TrimRight(_)
TrimRight(s) ==
    IF s # <<>> /\ s[Len(s)] = " " THEN TrimRight(SubSeq(s, 1, Len(s) - 1)) ELSE s

(* String.prototype.trim                                                   *)
Trim(s) == TrimRight(TrimLeft(s))

VARIABLES
    connState,       \* socket -> "new" | "open" | "closed"   (socket.connected)
    userId,          \* socket.userId
    nickname,        \* socket.nickname
    connectedUsers,  \* Map socket.id -> userId
    messages,        \* the Message collection, in insertion order
    clock,           \* Date.now()
    auths,           \* the invocations of the authenticate handler
    sends,           \* the invocations of the send_message handler
    nTyping,         \* typing events handled so far
    log              \* every emit, in the order the server made them

vars == << connState, userId, nickname, connectedUsers, messages, clock,
           auths, sends, nTyping, log >>

(* The documents in the collection when the server starts.                 *)
InitMessages ==
    [ i \in 1..InitStored |->
        [ id |-> i, userId |-> "u1", nickname |-> Nick("u1"),
          text |-> <<"h">>, timestamp |-> i ] ]

NoMsg == [ id |-> 0, userId |-> None, nickname |-> None, text |-> <<>>, timestamp |-> 0 ]

Init ==
    /\ connState = [ c \in Conn |-> "new" ]
    /\ userId = [ c \in Conn |-> None ]
    /\ nickname = [ c \in Conn |-> None ]
    /\ connectedUsers = << >>
    /\ messages = InitMessages
    /\ clock = InitStored
    /\ auths = << >>
    /\ sends = << >>
    /\ nTyping = 0
    /\ log = << >>

(* The inbound events handled so far.                                      *)
Handled == Len(auths) + Len(sends) + nTyping

(* The sockets of the namespace: the recipients of io.emit.                *)
Open(cs) == { c \in Conn : cs[c] = "open" }

Entry(ev, by, src, to, arg) ==
    [ ev |-> ev, by |-> by, src |-> src, to |-> to, arg |-> arg ]

(* socket.emit: delivered only while the socket is connected.              *)
SocketEmit(lg, cs, c, ev, by, arg) ==
    Append(lg, Entry(ev, by, c, IF cs[c] = "open" THEN {c} ELSE {}, arg))

(* io.emit: every socket of the namespace.                                 *)
IoEmit(lg, cs, c, ev, by, arg) ==
    Append(lg, Entry(ev, by, c, Open(cs), arg))

(* socket.broadcast.emit: every socket of the namespace but this one.      *)
BroadcastEmit(lg, cs, c, ev, by, arg) ==
    Append(lg, Entry(ev, by, c, Open(cs) \ {c}, arg))

(* An "authenticated" event has been emitted on socket c.                  *)
HasAuthenticated(c) ==
    \E k \in DOMAIN log : log[k].ev = "authenticated" /\ log[k].src = c

(* Map.prototype.set / delete                                              *)
MapSet(m, k, v) == [ x \in (DOMAIN m) \cup {k} |-> IF x = k THEN v ELSE m[x] ]
MapDelete(m, k) == [ x \in (DOMAIN m) \ {k} |-> m[x] ]

(* io.on("connection"): a new socket, with no userId.                      *)
Connect(c) ==
    /\ connState[c] = "new"
    /\ \A d \in Conn : d < c => connState[d] # "new"
    /\ connState' = [ connState EXCEPT ![c] = "open" ]
    /\ UNCHANGED << userId, nickname, connectedUsers, messages, clock,
                    auths, sends, nTyping, log >>

(* io.emit("user_left", ...): the entry of IoEmit, with whether the map    *)
(* cu, as it is when the emit is made, holds the socket (read by no        *)
(* handler).                                                               *)
UserLeft(lg, cs, cu, c, nick) ==
    Append(lg, [ ev |-> "user_left", by |-> <<"disconnect", c>>, src |-> c,
                 to |-> Open(cs), arg |-> nick, inMap |-> c \in DOMAIN cu ])

(* The handler without its test of socket.userId.                          *)
OnDisconnectLogAlways(lg, cs, cu, c, uid, nick) == UserLeft(lg, cs, cu, c, nick)

(* The "disconnect" handler, run on a socket that has just left the        *)
(* namespace (cs already has c closed): the log and the map after it.      *)
(* The emit comes first: cu is the map before the delete.                  *)
OnDisconnectLog(lg, cs, cu, c, uid, nick) ==
    IF uid # None THEN UserLeft(lg, cs, cu, c, nick) ELSE lg

(* The handler without its connectedUsers.delete.                          *)
OnDisconnectMapKeep(cu, c, uid) == cu

(* A delete of every entry of the socket's user.                           *)
OnDisconnectMapByUser(cu, c, uid) ==
    IF uid # None
      THEN [ x \in { y \in DOMAIN cu : cu[y] # uid } |-> cu[x] ]
      ELSE cu

OnDisconnectMap(cu, c, uid) ==
    IF uid # None THEN MapDelete(cu, c) ELSE cu

(* A close that runs the "disconnect" handler whatever the socket's state. *)
SocketDisconnectAgain(cs, lg, cu, c, uid, nick) ==
    LET cs2 == [ cs EXCEPT ![c] = "closed" ] IN
      [ cs |-> cs2,
        log |-> OnDisconnectLog(lg, cs2, cu, c, uid, nick),
        cu |-> OnDisconnectMap(cu, c, uid) ]

(* A handler that deletes the entry before it emits.                       *)
SocketDisconnectDeleteFirst(cs, lg, cu, c, uid, nick) ==
    IF cs[c] = "open"
      THEN LET cs2 == [ cs EXCEPT ![c] = "closed" ]
               cu2 == OnDisconnectMap(cu, c, uid) IN
             [ cs |-> cs2,
               log |-> OnDisconnectLog(lg, cs2, cu2, c, uid, nick),
               cu |-> cu2 ]
      ELSE [ cs |-> cs, log |-> lg, cu |-> cu ]

(* A close signal for a socket (socket.disconnect(), or its transport      *)
(* closing): a no-op on a socket that is no longer connected; otherwise    *)
(* the socket leaves the namespace and its "disconnect" handler runs at    *)
(* once.  The connection states, the log and the map after it.             *)
SocketDisconnect(cs, lg, cu, c, uid, nick) ==
    IF cs[c] = "open"
      THEN LET cs2 == [ cs EXCEPT ![c] = "closed" ] IN
             [ cs |-> cs2,
               log |-> OnDisconnectLog(lg, cs2, cu, c, uid, nick),
               cu |-> OnDisconnectMap(cu, c, uid) ]
      ELSE [ cs |-> cs, log |-> lg, cu |-> cu ]

(* The transport of a socket closes, or closes once more.                  *)
Disconnect(c) ==
    /\ connState[c] # "new"
    /\ LET r == SocketDisconnect(connState, log, connectedUsers, c,
                                 userId[c], nickname[c]) IN
         /\ connState' = r.cs
         /\ log' = r.log
         /\ connectedUsers' = r.cu
    /\ UNCHANGED << userId, nickname, messages, clock, auths, sends, nTyping >>

(* An auth_error that closes every socket of the namespace.                *)
AuthErrorCloseAll(c, by, why) ==
    /\ connState' = [ d \in Conn |-> IF connState[d] = "open" THEN "closed"
                                                               ELSE connState[d] ]
    /\ log' = SocketEmit(log, connState, c, "auth_error", by, why)
    /\ connectedUsers' = << >>

(* socket.emit("auth_error", why) and then socket.disconnect().            *)
AuthError(c, by, why) ==
    LET r == SocketDisconnect(connState,
                              SocketEmit(log, connState, c, "auth_error", by, why),
                              connectedUsers, c, userId[c], nickname[c]) IN
      /\ connState' = r.cs
      /\ log' = r.log
      /\ connectedUsers' = r.cu

(* ------------------------- the history query --------------------------- *)
Min(a, b) == IF a < b THEN a ELSE b

Reverse(s) == [ i \in 1..Len(s) |-> s[Len(s) + 1 - i] ]

(* Every way of inserting m in a sequence sorted by descending timestamp:  *)
(* documents of equal timestamp come in any order.                         *)
RECURSIVE InsertDesc(_, _)
InsertDesc(m, s) ==
    IF s = <<>> THEN { <<m>> }
    ELSE (IF m.timestamp >= Head(s).timestamp THEN { <<m>> \o s } ELSE {})
         \cup
         (IF m.timestamp <= Head(s).timestamp
            THEN { <<Head(s)>> \o r : r \in InsertDesc(m, Tail(s)) }
            ELSE {})

(* .sort({ timestamp: -1 }) of the first k documents: every outcome.       *)
RECURSIVE SortDesc(_, _)
SortDesc(docs, k) ==
    IF k = 0 THEN { <<>> }
    ELSE UNION { InsertDesc(docs[k], s) : s \in SortDesc(docs, k - 1) }

(* .limit(n)                                                               *)
Limit(s, n) == SubSeq(s, 1, Min(n, Len(s)))

(* The query without its sort: the last documents in insertion order.      *)
MessageHistoryUnsorted(docs) ==
    { Reverse(Limit(Reverse(docs), HistoryLimit)) }

(* Message.find().sort({ timestamp: -1 }).limit(50).lean(), reversed:      *)
(* every list the handler can emit as message_history.                     *)
MessageHistory(docs) ==
    { Reverse(Limit(s, HistoryLimit)) : s \in SortDesc(docs, Len(docs)) }

(* ------------------------- authenticate -------------------------------- *)
(* One invocation of the handler: its socket, the await it is suspended in *)
(* ("done" / "failed" once it has returned), decoded.id, the result of the *)
(* history query, and whether the socket had already been sent             *)
(* "authenticated" when the event arrived (read by no handler).            *)
AuthTask(c, pc, id, hist) ==
    [ conn |-> c, pc |-> pc, id |-> id, hist |-> hist, authed |-> HasAuthenticated(c) ]

(* socket.on("authenticate"): jwt.verify, then the await of User.findById. *)
Authenticate(c, token) ==
    /\ connState[c] = "open"
    /\ Handled < MaxEvents
    /\ Len(auths) < MaxAuth
    /\ LET i == Len(auths) + 1
           decoded == JwtVerify(token) IN
         IF decoded = None
           THEN /\ auths' = Append(auths, AuthTask(c, "failed", None, <<>>))
                /\ AuthError(c, <<"auth", i>>, "invalid_token")
           ELSE /\ auths' = Append(auths, AuthTask(c, "findById", decoded, <<>>))
                /\ UNCHANGED << connState, log, connectedUsers >>
    /\ UNCHANGED << userId, nickname, messages, clock, sends, nTyping >>

(* User.findById returns the user, whose identity goes into the socket and *)
(* the map before the await of user.save().                                *)
AuthFindById(i) ==
    /\ i \in DOMAIN auths
    /\ auths[i].pc = "findById"
    /\ LET c == auths[i].conn
           id == auths[i].id IN
         /\ userId' = [ userId EXCEPT ![c] = id ]
         /\ nickname' = [ nickname EXCEPT ![c] = Nick(id) ]
         /\ connectedUsers' = MapSet(connectedUsers, c, id)
         /\ auths' = [ auths EXCEPT ![i].pc = "save" ]
    /\ UNCHANGED << connState, log, messages, clock, sends, nTyping >>

(* User.findById returns null (the document of the token's user has been   *)
(* removed from the collection): auth_error, and the socket is closed.     *)
AuthNoUser(i) ==
    /\ i \in DOMAIN auths
    /\ auths[i].pc = "findById"
    /\ auths' = [ auths EXCEPT ![i].pc = "failed" ]
    /\ AuthError(auths[i].conn, <<"auth", i>>, "not_found")
    /\ UNCHANGED << userId, nickname, messages, clock, sends, nTyping >>

(* A handler that looks the user up again after user.save().               *)
AuthSavedRetry(i) ==
    /\ i \in DOMAIN auths
    /\ auths[i].pc = "save"
    /\ auths' = [ auths EXCEPT ![i].pc = "findById" ]
    /\ UNCHANGED << connState, userId, nickname, connectedUsers, messages,
                    clock, sends, nTyping, log >>

(* user.save() returns; Message.find() is issued and reads the collection  *)
(* (a read at any later moment before its return is this step taken        *)
(* later: the step has no other effect).                                   *)
AuthSaved(i) ==
    /\ i \in DOMAIN auths
    /\ auths[i].pc = "save"
    /\ \E h \in MessageHistory(messages) :
         auths' = [ auths EXCEPT ![i].pc = "find", ![i].hist = h ]
    /\ UNCHANGED << connState, userId, nickname, connectedUsers, messages,
                    clock, sends, nTyping, log >>

(* The announcement made with socket.broadcast.emit.                       *)
AuthHistoryToOthers(i) ==
    /\ i \in DOMAIN auths
    /\ auths[i].pc = "find"
    /\ LET c == auths[i].conn
           by == <<"auth", i>>
           l1 == SocketEmit(log, connState, c, "message_history", by, auths[i].hist)
           l2 == SocketEmit(l1, connState, c, "authenticated", by, Nick(auths[i].id))
       IN log' = BroadcastEmit(l2, connState, c, "user_joined", by, Nick(auths[i].id))
    /\ auths' = [ auths EXCEPT ![i].pc = "done", ![i].hist = <<>> ]
    /\ UNCHANGED << connState, userId, nickname, connectedUsers, messages,
                    clock, sends, nTyping >>

(* Message.find() returns: message_history, authenticated, user_joined.    *)
AuthHistory(i) ==
    /\ i \in DOMAIN auths
    /\ auths[i].pc = "find"
    /\ LET c == auths[i].conn
           by == <<"auth", i>>
           l1 == SocketEmit(log, connState, c, "message_history", by, auths[i].hist)
           l2 == SocketEmit(l1, connState, c, "authenticated", by, Nick(auths[i].id))
       IN log' = IoEmit(l2, connState, c, "user_joined", by, Nick(auths[i].id))
    /\ auths' = [ auths EXCEPT ![i].pc = "done", ![i].hist = <<>> ]
    /\ UNCHANGED << connState, userId, nickname, connectedUsers, messages,
                    clock, sends, nTyping >>

(* One of the awaited store calls throws: the catch block.                 *)
AuthCatch(i) ==
    /\ i \in DOMAIN auths
    /\ auths[i].pc \in { "findById", "save", "find" }
    /\ auths' = [ auths EXCEPT ![i].pc = "failed", ![i].hist = <<>> ]
    /\ AuthError(auths[i].conn, <<"auth", i>>, "invalid_token")
    /\ UNCHANGED << userId, nickname, messages, clock, sends, nTyping >>

(* ------------------------- send_message -------------------------------- *)
(* The required validator of messageSchema.text: no empty string.          *)
Required(text) == text # <<>>

SendTask(c, pc, msg) == [ conn |-> c, pc |-> pc, msg |-> msg ]

(* A document whose author is not read from the socket.                    *)
NewMessageFixedAuthor(i, c, text, now) ==
    [ id |-> InitStored + i, userId |-> "u2", nickname |-> Nick("u2"),
      text |-> text, timestamp |-> now ]

(* new Message({...}): _id and the default timestamp are set here.         *)
NewMessage(i, c, text, now) ==
    [ id |-> InitStored + i, userId |-> userId[c], nickname |-> nickname[c],
      text |-> text, timestamp |-> now ]

(* Date.now(): the millisecond of the previous call or a later one, and    *)
(* later than the documents stored before the server started.              *)
DateNow == { t \in { clock, clock + 1 } : t > InitStored }

(* A guard that also closes the unauthenticated socket.                    *)
SendMessageStrict(c, text) ==
    /\ connState[c] = "open"
    /\ Handled < MaxEvents
    /\ Len(sends) < MaxSend
    /\ LET i == Len(sends) + 1 IN
         IF userId[c] = None
           THEN /\ sends' = Append(sends, SendTask(c, "rejected", NoMsg))
                /\ log' = SocketEmit(log, connState, c, "error", <<"send", i>>, "unauthorized")
                /\ connState' = [ connState EXCEPT ![c] = "closed" ]
                /\ UNCHANGED clock
           ELSE /\ \E now \in DateNow :
                     /\ clock' = now
                     /\ sends' = Append(sends,
                                   SendTask(c, "save", NewMessage(i, c, text, now)))
                /\ UNCHANGED << log, connState >>
    /\ UNCHANGED << userId, nickname, connectedUsers, messages, auths, nTyping >>

(* socket.on("send_message"): the guard, new Message, the await of save.   *)
SendMessage(c, text) ==
    /\ connState[c] = "open"
    /\ Handled < MaxEvents
    /\ Len(sends) < MaxSend
    /\ LET i == Len(sends) + 1 IN
         IF userId[c] = None
           THEN /\ sends' = Append(sends, SendTask(c, "rejected", NoMsg))
                /\ log' = SocketEmit(log, connState, c, "error", <<"send", i>>, "unauthorized")
                /\ UNCHANGED clock
           ELSE /\ \E now \in DateNow :
                     /\ clock' = now
                     /\ sends' = Append(sends,
                                   SendTask(c, "save", NewMessage(i, c, text, now)))
                /\ UNCHANGED log
    /\ UNCHANGED << connState, userId, nickname, connectedUsers, messages,
                    auths, nTyping >>

(* A collection capped at the size of the history: the oldest document     *)
(* is dropped.                                                             *)
SendStoreCapped(i) ==
    /\ i \in DOMAIN sends
    /\ sends[i].pc = "save"
    /\ Required(sends[i].msg.text)
    /\ messages' = IF Len(messages) >= HistoryLimit
                     THEN Append(Tail(messages), sends[i].msg)
                     ELSE Append(messages, sends[i].msg)
    /\ sends' = [ sends EXCEPT ![i].pc = "saved" ]
    /\ UNCHANGED << connState, userId, nickname, connectedUsers, clock,
                    auths, nTyping, log >>

(* A store that serves no insert while an authenticate is suspended.       *)
SendStoreSerial(i) ==
    /\ i \in DOMAIN sends
    /\ sends[i].pc = "save"
    /\ \A j \in DOMAIN auths : auths[j].pc \in { "done", "failed" }
    /\ Required(sends[i].msg.text)
    /\ messages' = Append(messages, sends[i].msg)
    /\ sends' = [ sends EXCEPT ![i].pc = "saved" ]
    /\ UNCHANGED << connState, userId, nickname, connectedUsers, clock,
                    auths, nTyping, log >>

(* The store inserts the document of a pending message.save().             *)
SendStore(i) ==
    /\ i \in DOMAIN sends
    /\ sends[i].pc = "save"
    /\ Required(sends[i].msg.text)
    /\ messages' = Append(messages, sends[i].msg)
    /\ sends' = [ sends EXCEPT ![i].pc = "saved" ]
    /\ UNCHANGED << connState, userId, nickname, connectedUsers, clock,
                    auths, nTyping, log >>

(* The broadcast made with socket.broadcast.emit: the sender is left out.  *)
SendBroadcastToOthers(i) ==
    /\ i \in DOMAIN sends
    /\ sends[i].pc = "saved"
    /\ log' = BroadcastEmit(log, connState, sends[i].conn, "new_message", <<"send", i>>,
                            sends[i].msg)
    /\ sends' = [ sends EXCEPT ![i].pc = "done" ]
    /\ UNCHANGED << connState, userId, nickname, connectedUsers, messages,
                    clock, auths, nTyping >>

(* The broadcast dropped when the sender has gone.                         *)
SendBroadcastIfOpen(i) ==
    /\ i \in DOMAIN sends
    /\ sends[i].pc = "saved"
    /\ log' = IF connState[sends[i].conn] = "open"
                THEN IoEmit(log, connState, sends[i].conn, "new_message",
                            <<"send", i>>, sends[i].msg)
                ELSE log
    /\ sends' = [ sends EXCEPT ![i].pc = "done" ]
    /\ UNCHANGED << connState, userId, nickname, connectedUsers, messages,
                    clock, auths, nTyping >>

(* message.save() returns: io.emit("new_message", ...).                    *)
SendBroadcast(i) ==
    /\ i \in DOMAIN sends
    /\ sends[i].pc = "saved"
    /\ LET m == sends[i].msg IN
         log' = IoEmit(log, connState, sends[i].conn, "new_message", <<"send", i>>,
                       [ id |-> m.id, userId |-> m.userId, nickname |-> m.nickname,
                         text |-> m.text, timestamp |-> m.timestamp ])
    /\ sends' = [ sends EXCEPT ![i].pc = "done" ]
    /\ UNCHANGED << connState, userId, nickname, connectedUsers, messages,
                    clock, auths, nTyping >>

(* The catch block reporting the failure with io.emit.                     *)
SendCatchToAll(i) ==
    /\ i \in DOMAIN sends
    /\ sends[i].pc = "save"
    /\ log' = IoEmit(log, connState, sends[i].conn, "error", <<"send", i>>, "send_failed")
    /\ sends' = [ sends EXCEPT ![i].pc = "failed" ]
    /\ UNCHANGED << connState, userId, nickname, connectedUsers, messages,
                    clock, auths, nTyping >>

(* A catch block that announces the message it failed to store.           *)
SendCatchAndBroadcast(i) ==
    /\ i \in DOMAIN sends
    /\ sends[i].pc = "save"
    /\ log' = IoEmit(SocketEmit(log, connState, sends[i].conn, "error",
                                <<"send", i>>, "send_failed"),
                     connState, sends[i].conn, "new_message", <<"send", i>>,
                     sends[i].msg)
    /\ sends' = [ sends EXCEPT ![i].pc = "failed" ]
    /\ UNCHANGED << connState, userId, nickname, connectedUsers, messages,
                    clock, auths, nTyping >>

(* A catch block that only logs on the server.                             *)
SendCatchSilent(i) ==
    /\ i \in DOMAIN sends
    /\ sends[i].pc = "save"
    /\ sends' = [ sends EXCEPT ![i].pc = "failed" ]
    /\ UNCHANGED << connState, userId, nickname, connectedUsers, messages,
                    clock, auths, nTyping, log >>

(* message.save() throws (validation, or the store fails before the        *)
(* insert): the catch block.                                               *)
SendCatch(i) ==
    /\ i \in DOMAIN sends
    /\ sends[i].pc = "save"
    /\ log' = SocketEmit(log, connState, sends[i].conn, "error", <<"send", i>>, "send_failed")
    /\ sends' = [ sends EXCEPT ![i].pc = "failed" ]
    /\ UNCHANGED << connState, userId, nickname, connectedUsers, messages,
                    clock, auths, nTyping >>

(* ------------------------- typing -------------------------------------- *)
(* The relay made with io.emit: the sender gets its own signal.            *)
TypingToAll(c) ==
    /\ connState[c] = "open"
    /\ Handled < MaxEvents
    /\ nTyping < MaxTyping
    /\ nTyping' = nTyping + 1
    /\ log' = IF userId[c] # None
                THEN IoEmit(log, connState, c, "user_typing", <<"typing", c>>, nickname[c])
                ELSE log
    /\ UNCHANGED << connState, userId, nickname, connectedUsers, messages,
                    clock, auths, sends >>

(* socket.on("typing"): relayed only when socket.userId is set.            *)
Typing(c) ==
    /\ connState[c] = "open"
    /\ Handled < MaxEvents
    /\ nTyping < MaxTyping
    /\ nTyping' = nTyping + 1
    /\ log' = IF userId[c] # None
                THEN BroadcastEmit(log, connState, c, "user_typing",
                                   <<"typing", c>>, nickname[c])
                ELSE log
    /\ UNCHANGED << connState, userId, nickname, connectedUsers, messages,
                    clock, auths, sends >>

Next ==
    \/ \E c \in Conn : Connect(c)
    \/ \E c \in Conn : Disconnect(c)
    \/ \E c \in Conn, token \in Tokens : Authenticate(c, token)
    \/ \E i \in 1..MaxAuth : AuthFindById(i)
    \/ \E i \in 1..MaxAuth : AuthNoUser(i)
    \/ \E i \in 1..MaxAuth : AuthSaved(i)
    \/ \E i \in 1..MaxAuth : AuthHistory(i)
    \/ \E i \in 1..MaxAuth : AuthCatch(i)
    \/ \E c \in Conn, text \in Texts : SendMessage(c, text)
    \/ \E i \in 1..MaxSend : SendStore(i)
    \/ \E i \in 1..MaxSend : SendBroadcast(i)
    \/ \E i \in 1..MaxSend : SendCatch(i)
    \/ \E c \in Conn : Typing(c)

Spec == Init /\ [][Next]_vars

(* The continuation of invocation i of the authenticate handler: each of   *)
(* its awaits returns or throws.                                           *)
AuthStep(i) ==
    AuthFindById(i) \/ AuthNoUser(i) \/ AuthSaved(i) \/ AuthHistory(i) \/ AuthCatch(i)

(* The steps of Next, with at most MaxLiveEvents events arriving.          *)
LiveNext ==
    \/ \E c \in Conn : Connect(c)
    \/ \E c \in Conn : Disconnect(c)
    \/ \E c \in Conn, token \in Tokens :
         Handled < MaxLiveEvents /\ Authenticate(c, token)
    \/ \E i \in 1..MaxAuth : AuthFindById(i)
    \/ \E i \in 1..MaxAuth : AuthNoUser(i)
    \/ \E i \in 1..MaxAuth : AuthSaved(i)
    \/ \E i \in 1..MaxAuth : AuthHistory(i)
    \/ \E i \in 1..MaxAuth : AuthCatch(i)
    \/ \E c \in Conn, text \in Texts :
         Handled < MaxLiveEvents /\ SendMessage(c, text)
    \/ \E i \in 1..MaxSend : SendStore(i)
    \/ \E i \in 1..MaxSend : SendBroadcast(i)
    \/ \E i \in 1..MaxSend : SendCatch(i)
    \/ \E c \in Conn : Handled < MaxLiveEvents /\ Typing(c)

(* Every call to the verifier and the store eventually returns or fails.   *)
LiveSpec ==
    Init /\ [][LiveNext]_vars /\ \A i \in 1..MaxAuth : WF_vars(AuthStep(i))

(* The continuation of invocation i of the send_message handler: its       *)
(* message.save() is served by the store, and returns or throws.           *)
SendStep(i) == SendStore(i) \/ SendBroadcast(i) \/ SendCatch(i)

(* Every message.save() eventually returns or fails.                       *)
SendLiveSpec ==
    Init /\ [][LiveNext]_vars /\ \A i \in 1..MaxSend : WF_vars(SendStep(i))

(* ======================================================================= *)
(* Properties                                                              *)
(* ======================================================================= *)
Range(f) == { f[x] : x \in DOMAIN f }

(* The log positions of the emits of event ev made by handler invocation by. *)
EmitsBy(by, ev) == { k \in DOMAIN log : log[k].by = by /\ log[k].ev = ev }

(* A history is in non-decreasing timestamp order.                         *)
NonDecreasing(h) ==
    \A p \in DOMAIN h : p < Len(h) => h[p].timestamp <= h[p + 1].timestamp

(* The history and the acknowledgement of a completed authenticate are     *)
(* well formed: one of each, on its own socket, at most 50 messages in     *)
(* non-decreasing timestamp order.                                         *)
AuthReplyShape(i) ==
    /\ Cardinality(EmitsBy(<<"auth", i>>, "authenticated")) = 1
    /\ Cardinality(EmitsBy(<<"auth", i>>, "message_history")) = 1
    /\ \A k \in EmitsBy(<<"auth", i>>, "authenticated") \cup
                EmitsBy(<<"auth", i>>, "message_history") :
         /\ log[k].src = auths[i].conn
         /\ log[k].to \subseteq { auths[i].conn }
    /\ \A k \in EmitsBy(<<"auth", i>>, "message_history") :
         /\ Len(log[k].arg) <= HistoryLimit
         /\ NonDecreasing(log[k].arg)

RejectedToken(i) ==
    /\ auths[i].pc = "failed"
    /\ \/ auths[i].id = None
       \/ \E k \in EmitsBy(<<"auth", i>>, "auth_error") : log[k].arg = "not_found"

(* C2: an authenticate with an invalid, expired or malformed token, or     *)
(* with the token of a user that no longer exists, emits exactly one       *)
(* auth_error, the socket is closed, and connectedUsers has no entry for   *)
(* the socket.                                                             *)
C2_RejectedTokenLeavesNoEntry ==
    \A i \in DOMAIN auths :
      RejectedToken(i) =>
        /\ Cardinality(EmitsBy(<<"auth", i>>, "auth_error")) = 1
        /\ connState[auths[i].conn] = "closed"
        /\ auths[i].conn \notin DOMAIN connectedUsers

(* C3: a send_message on a socket that has not been sent "authenticated"   *)
(* is rejected: it got an error, and nothing of it is stored or broadcast. *)
C3_UnauthenticatedSendRejected ==
    \A i \in DOMAIN sends :
      ~HasAuthenticated(sends[i].conn) =>
        /\ sends[i].pc = "rejected"
        /\ EmitsBy(<<"send", i>>, "error") # {}
        /\ EmitsBy(<<"send", i>>, "new_message") = {}
        /\ \A p \in DOMAIN messages : messages[p].id # InitStored + i

(* C4: a message whose text is empty after trimming is never stored or     *)
(* broadcast, and a stored text is the trimmed text.                       *)
C4_BlankTextRejectedAndTextTrimmed ==
    \A i \in DOMAIN sends :
      sends[i].pc \in { "saved", "done" } =>
        /\ Trim(sends[i].msg.text) # <<>>
        /\ \A p \in DOMAIN messages :
             messages[p].id = sends[i].msg.id =>
               messages[p].text = Trim(sends[i].msg.text)

(* The position of the document of send i in the collection, and of its    *)
(* broadcast in the log (0: none).                                         *)
StoredAt(i) ==
    IF \E p \in DOMAIN messages : messages[p].id = sends[i].msg.id
      THEN CHOOSE p \in DOMAIN messages : messages[p].id = sends[i].msg.id
      ELSE 0

BroadcastAt(i) ==
    IF EmitsBy(<<"send", i>>, "new_message") # {}
      THEN CHOOSE k \in EmitsBy(<<"send", i>>, "new_message") : TRUE
      ELSE 0

(* C5: of two messages of one socket, the one submitted first is stored    *)
(* first and broadcast first.                                              *)
C5_PerSenderOrder ==
    \A i, j \in DOMAIN sends :
      (i < j /\ sends[i].conn = sends[j].conn) =>
        /\ (StoredAt(i) # 0 /\ StoredAt(j) # 0) => StoredAt(i) < StoredAt(j)
        /\ (BroadcastAt(i) # 0 /\ BroadcastAt(j) # 0) => BroadcastAt(i) < BroadcastAt(j)

(* The open sockets that hold an identity or a connectedUsers entry.       *)
AuthenticatedLive ==
    { c \in Conn : connState[c] = "open"
                   /\ (userId[c] # None \/ c \in DOMAIN connectedUsers) }

(* C6: the step that handles the success of a store write emits one        *)
(* new_message, carrying the stored document, to every authenticated       *)
(* socket that is open at that moment, the sender included.                *)
C6_NewMessageToAllAuthenticated ==
    [][ \A i \in DOMAIN sends :
          (sends[i].pc = "saved" /\ sends'[i].pc # "saved") =>
            /\ Len(log') = Len(log) + 1
            /\ LET e == log'[Len(log')] IN
                 /\ e.ev = "new_message"
                 /\ e.by = <<"send", i>>
                 /\ e.arg = sends[i].msg
                 /\ e.arg \in Range(messages)
                 /\ AuthenticatedLive \subseteq e.to
                 /\ (connState[sends[i].conn] = "open" => sends[i].conn \in e.to)
      ]_vars

(* C6 witness: a new_message delivered to its sender and to another socket, *)
(* both of them sent "authenticated" before.                               *)
C6_Witness ==
    \E k \in DOMAIN log :
      /\ log[k].ev = "new_message"
      /\ log[k].src \in log[k].to
      /\ Cardinality(log[k].to) >= 2
      /\ \A c \in log[k].to :
           \E a \in DOMAIN log : a < k /\ log[a].ev = "authenticated" /\ log[a].src = c

Broadcasts == { "new_message", "user_joined", "user_left", "user_typing" }

(* C7: a broadcast reaches only sockets that have an entry in              *)
(* connectedUsers when it is made.                                         *)
C7_BroadcastOnlyToRegistered ==
    [][ \A k \in DOMAIN log' :
          (k > Len(log) /\ log'[k].ev \in Broadcasts) =>
            log'[k].to \subseteq DOMAIN connectedUsers'
      ]_vars

(* C8: a failed store write gives one error, to the sender alone, no       *)
(* new_message, and the document is not in the collection, then or later.  *)
C8_FailedWriteOnlyErrorToSender ==
    \A i \in DOMAIN sends :
      sends[i].pc = "failed" =>
        /\ Cardinality(EmitsBy(<<"send", i>>, "error")) = 1
        /\ \A k \in EmitsBy(<<"send", i>>, "error") :
             log[k].to \subseteq { sends[i].conn }
        /\ EmitsBy(<<"send", i>>, "new_message") = {}
        /\ StoredAt(i) = 0

(* C8 witness: the write of a valid text failed while another socket was   *)
(* open, and the sender got the error.                                     *)
C8_Witness ==
    \E i \in DOMAIN sends :
      /\ sends[i].pc = "failed"
      /\ Required(sends[i].msg.text)
      /\ \E k \in EmitsBy(<<"send", i>>, "error") : log[k].to = { sends[i].conn }
      /\ \E c \in Conn : c # sends[i].conn /\ connState[c] = "open"

(* C9: an authenticate that arrives on a socket already sent               *)
(* "authenticated" is ignored or rejected: it never gets to set the        *)
(* identity or the connectedUsers entry, and emits no authenticated,       *)
(* message_history or user_joined.                                         *)
C9_SecondAuthenticateIgnored ==
    \A i \in DOMAIN auths :
      auths[i].authed =>
        /\ auths[i].pc \notin { "save", "find", "done" }
        /\ EmitsBy(<<"auth", i>>, "authenticated") = {}
        /\ EmitsBy(<<"auth", i>>, "message_history") = {}
        /\ EmitsBy(<<"auth", i>>, "user_joined") = {}

(* C10: every key of connectedUsers is an open socket.                     *)
C10_RegistryKeysOpen ==
    DOMAIN connectedUsers \subseteq Open(connState)

(* The entries a step appends to the log.                                  *)
Added(ev) == { k \in DOMAIN log' : k > Len(log) /\ log'[k].ev = ev }

(* C11: a step that closes a socket whose userId is set appends exactly    *)
(* one user_left, carrying that socket's nickname, and leaves the socket   *)
(* without an entry in connectedUsers; no socket ever has two user_left.   *)
C11_CloseEmitsOneUserLeft ==
    [][ \A c \in Conn :
          /\ (connState[c] = "open" /\ connState'[c] = "closed" /\ userId[c] # None) =>
               /\ Cardinality(Added("user_left")) = 1
               /\ \A k \in Added("user_left") :
                    /\ log'[k].src = c
                    /\ log'[k].arg = nickname[c]
                    /\ log'[k].to = Open(connState')
               /\ c \notin DOMAIN connectedUsers'
          /\ Cardinality({ k \in DOMAIN log' :
                             log'[k].ev = "user_left" /\ log'[k].src = c }) <= 1
      ]_vars

(* C11 witness: a socket that had been sent "authenticated" is closed,     *)
(* another socket got its user_left, and it has no entry.                  *)
C11_Witness ==
    \E k \in DOMAIN log :
      /\ log[k].ev = "user_left"
      /\ log[k].to # {}
      /\ connState[log[k].src] = "closed"
      /\ log[k].arg = nickname[log[k].src]
      /\ log[k].src \notin DOMAIN connectedUsers
      /\ \E a \in DOMAIN log :
           a < k /\ log[a].ev = "authenticated" /\ log[a].to = { log[k].src }

(* C12: typing on a socket whose userId is set appends one user_typing     *)
(* with the sender's nickname, delivered to every other open socket that   *)
(* is authenticated and not to the sender.                                 *)
C12_TypingToOthersOnly ==
    [][ \A c \in Conn :
          (Typing(c) /\ userId[c] # None) =>
            /\ Len(log') = Len(log) + 1
            /\ \A k \in Added("user_typing") :
                 /\ log'[k].src = c
                 /\ log'[k].arg = nickname[c]
                 /\ c \notin log'[k].to
                 /\ (AuthenticatedLive \ {c}) \subseteq log'[k].to
            /\ Cardinality(Added("user_typing")) = 1
      ]_vars

(* C12 witness: a user_typing of an authenticated socket reached another   *)
(* authenticated socket.                                                   *)
C12_Witness ==
    \E k \in DOMAIN log :
      /\ log[k].ev = "user_typing"
      /\ log[k].src \notin log[k].to
      /\ \E a \in DOMAIN log :
           a < k /\ log[a].ev = "authenticated" /\ log[a].to = { log[k].src }
      /\ \E d \in log[k].to : \E a \in DOMAIN log :
           a < k /\ log[a].ev = "authenticated" /\ log[a].to = {d}

(* C13: typing on a socket whose userId is not set sends that socket an    *)
(* error, relays nothing, and leaves the collection and connectedUsers     *)
(* as they were.                                                           *)
C13_UnauthenticatedTypingRejected ==
    [][ \A c \in Conn :
          (Typing(c) /\ userId[c] = None) =>
            /\ \E k \in Added("error") : log'[k].to = {c}
            /\ Added("user_typing") = {}
            /\ messages' = messages
            /\ connectedUsers' = connectedUsers
      ]_vars

(* C14 as stated: no user_joined is delivered to the socket that           *)
(* authenticated.                                                          *)
C14_UserJoinedNotToSelf ==
    \A k \in DOMAIN log :
      log[k].ev = "user_joined" => log[k].src \notin log[k].to

(* C14, amended: the step that ends a successful authenticate appends one  *)
(* user_joined with the user's nickname, delivered to every open socket,   *)
(* the authenticating one included while it is open.                       *)
C14_UserJoinedToAll ==
    [][ \A i \in DOMAIN auths :
          (auths[i].pc = "find" /\ auths'[i].pc = "done") =>
            /\ Cardinality(Added("user_joined")) = 1
            /\ \A k \in Added("user_joined") :
                 /\ k = Len(log')
                 /\ log'[k].by = <<"auth", i>>
                 /\ log'[k].arg = Nick(auths[i].id)
                 /\ log'[k].to = Open(connState)
                 /\ AuthenticatedLive \subseteq log'[k].to
                 /\ (connState[auths[i].conn] = "open" => auths[i].conn \in log'[k].to)
      ]_vars

(* C14 witness: a user_joined reached both the socket that authenticated   *)
(* and another socket.                                                     *)
C14_Witness ==
    \E k \in DOMAIN log :
      /\ log[k].ev = "user_joined"
      /\ log[k].src \in log[k].to
      /\ log[k].to # { log[k].src }
      /\ log[k - 1].ev = "authenticated"
      /\ log[k - 1].to = { log[k].src }

LastStored(docs, n) == SubSeq(docs, Len(docs) - Min(n, Len(docs)) + 1, Len(docs))

(* C16: the history read for an authenticate is the last min(50, n)        *)
(* documents of the n stored, in the order they were stored.               *)
C16_HistoryIsLastStored ==
    [][ \A i \in DOMAIN auths :
          (auths[i].pc = "save" /\ auths'[i].pc = "find") =>
            auths'[i].hist = LastStored(messages, HistoryLimit)
      ]_vars

(* C17: the timestamps of the collection never decrease along the order    *)
(* in which the documents were stored.                                     *)
C17_TimestampsFollowStorageOrder ==
    \A p, q \in DOMAIN messages :
      p < q => messages[p].timestamp <= messages[q].timestamp

(* C18: once a socket is closed, no step sets its identity, gives it an    *)
(* entry in connectedUsers or announces it with user_joined.               *)
C18_LateAuthenticateDiscarded ==
    [][ \A c \in Conn :
          connState[c] = "closed" =>
            /\ userId'[c] = userId[c]
            /\ (c \in DOMAIN connectedUsers' => c \in DOMAIN connectedUsers)
            /\ \A k \in Added("user_joined") : log'[k].src # c
      ]_vars

(* C19: when the store write of a message succeeds after its sender has    *)
(* closed, the handler still emits one new_message with the stored         *)
(* document, to every open socket and so to every authenticated one.       *)
C19_BroadcastAfterSenderClosed ==
    [][ \A i \in DOMAIN sends :
          (sends[i].pc = "saved" /\ sends'[i].pc # "saved"
             /\ connState[sends[i].conn] = "closed") =>
            /\ sends'[i].pc = "done"
            /\ Cardinality(Added("new_message")) = 1
            /\ \A k \in Added("new_message") :
                 /\ log'[k].by = <<"send", i>>
                 /\ log'[k].arg = sends[i].msg
                 /\ log'[k].to = Open(connState)
                 /\ AuthenticatedLive \subseteq log'[k].to
      ]_vars

(* C19 witness: a new_message whose sender had closed reached a socket     *)
(* that had been sent "authenticated".                                     *)
C19_Witness ==
    \E k \in DOMAIN log :
      /\ log[k].ev = "new_message"
      /\ log[k].src \notin log[k].to
      /\ \E d \in log[k].to : \E a \in DOMAIN log :
           a < k /\ log[a].ev = "authenticated" /\ log[a].to = {d}

(* A close signal for socket c: its transport closes, or a handler calls   *)
(* socket.disconnect().                                                    *)
CloseSignal(c) ==
    \/ Disconnect(c)
    \/ \E i \in DOMAIN auths :
         auths[i].conn = c /\ (AuthCatch(i) \/ AuthNoUser(i))

(* C20: a close signal for a socket already closed appends no user_left    *)
(* and leaves connectedUsers, the identities and the connection states as  *)
(* they were; no step appends a user_left for a closed socket.             *)
C20_DuplicateCloseNoEffect ==
    [][ \A c \in Conn :
          connState[c] = "closed" =>
            /\ \A k \in Added("user_left") : log'[k].src # c
            /\ CloseSignal(c) =>
                 /\ Added("user_left") = {}
                 /\ connectedUsers' = connectedUsers
                 /\ connState' = connState
                 /\ userId' = userId
      ]_vars

(* C20 witness: socket.disconnect() was called on a socket that had        *)
(* already closed and emitted its user_left.                               *)
C20_Witness ==
    \E k \in DOMAIN log : \E e \in DOMAIN log :
      /\ log[k].ev = "user_left"
      /\ k < e
      /\ log[e].ev = "auth_error"
      /\ log[e].src = log[k].src
      /\ log[e].to = {}
      /\ Cardinality({ x \in DOMAIN log :
                         log[x].ev = "user_left" /\ log[x].src = log[k].src }) = 1

FailureOf(c) ==
    \/ \E k \in Added("auth_error") \cup Added("error") : log'[k].src = c
    \/ Typing(c) /\ userId[c] = None

(* The connectedUsers entry of socket d in the map cu, None without one.   *)
EntryOf(cu, d) == IF d \in DOMAIN cu THEN cu[d] ELSE None

(* C22: a failure on one socket leaves every other socket's connection     *)
(* state, identity and connectedUsers entry as they were.                  *)
C22_FailuresAreLocal ==
    [][ \A c \in Conn :
          FailureOf(c) =>
            \A d \in Conn \ {c} :
              /\ connState'[d] = connState[d]
              /\ userId'[d] = userId[d]
              /\ nickname'[d] = nickname[d]
              /\ EntryOf(connectedUsers', d) = EntryOf(connectedUsers, d)
      ]_vars

(* C22 witness: after an auth_error or error of one socket, another        *)
(* socket, authenticated before it, is open with its identity and entry.   *)
C22_Witness ==
    \E k \in DOMAIN log : \E d \in Conn :
      /\ log[k].ev \in { "auth_error", "error" }
      /\ d # log[k].src
      /\ \E a \in DOMAIN log :
           a < k /\ log[a].ev = "authenticated" /\ log[a].to = {d}
      /\ connState[d] = "open"
      /\ userId[d] # None
      /\ EntryOf(connectedUsers, d) = userId[d]

(* A send_message of socket c has been turned down by the guard.           *)
WasRejected(c) ==
    \E i \in DOMAIN sends : sends[i].conn = c /\ sends[i].pc = "rejected"

(* C23: the step that turns down a send_message or typing of a socket      *)
(* without identity leaves the socket open, without identity and without   *)
(* entry, and starts or ends no authenticate; on such a socket a valid     *)
(* token is still taken up, and the authenticate that gets through its     *)
(* store calls still ends with "authenticated" sent to the socket.         *)
C23_RejectedThenAuthenticate ==
    [][ /\ \A c \in Conn :
             \/ Typing(c) /\ userId[c] = None
             \/ /\ Len(sends') = Len(sends) + 1
                /\ sends'[Len(sends')].conn = c
                /\ sends'[Len(sends')].pc = "rejected"
             => /\ connState'[c] = "open"
                /\ userId'[c] = None
                /\ c \notin DOMAIN connectedUsers'
                /\ auths' = auths
        /\ \A c \in Conn, token \in Tokens :
             (WasRejected(c) /\ JwtVerify(token) # None /\ Authenticate(c, token)) =>
               /\ auths'[Len(auths')].pc = "findById"
               /\ connState'[c] = "open"
        /\ \A i \in DOMAIN auths :
             (WasRejected(auths[i].conn) /\ auths[i].pc = "find"
                /\ auths'[i].pc = "done") =>
               /\ userId[auths[i].conn] # None
               /\ Cardinality(Added("authenticated")) = 1
               /\ \A k \in Added("authenticated") :
                    /\ log'[k].src = auths[i].conn
                    /\ connState[auths[i].conn] = "open" =>
                         log'[k].to = { auths[i].conn }
      ]_vars

(* C23 witness: the only socket had a send_message turned down and a       *)
(* typing dropped, and was sent "authenticated" after that.                *)
C23_Witness ==
    /\ connState[1] = "open"
    /\ \A c \in Conn \ {1} : connState[c] = "new"
    /\ nTyping = 1
    /\ \A k \in DOMAIN log : log[k].ev # "user_typing"
    /\ userId[1] # None
    /\ \E k, a \in DOMAIN log :
         /\ k < a
         /\ log[k].ev = "error" /\ log[k].to = {1}
         /\ log[a].ev = "authenticated" /\ log[a].to = {1}

(* C24: two open sockets of one user each have their own entry; a step     *)
(* that closes one of them appends one user_left, its own, removes its     *)
(* entry and leaves the other open with its identity and its entry.        *)
C24_SameUserTwoSockets ==
    [][ \A c, d \in Conn :
          (c # d /\ userId[c] # None /\ userId[d] = userId[c]
             /\ connState[c] = "open" /\ connState[d] = "open") =>
            /\ EntryOf(connectedUsers, c) = userId[c]
            /\ EntryOf(connectedUsers, d) = userId[d]
            /\ connState'[c] = "closed" =>
                 /\ Cardinality(Added("user_left")) = 1
                 /\ \A k \in Added("user_left") : log'[k].src = c /\ d \in log'[k].to
                 /\ c \notin DOMAIN connectedUsers'
                 /\ EntryOf(connectedUsers', d) = userId[d]
                 /\ userId'[d] = userId[d]
                 /\ connState'[d] = "open"
      ]_vars

(* C24 witness: of two sockets sent "authenticated" for one user, one has  *)
(* closed, the other got its user_left and is open with its entry.         *)
C24_Witness ==
    \E k \in DOMAIN log : \E d \in Conn :
      /\ log[k].ev = "user_left"
      /\ d \in log[k].to
      /\ userId[d] = userId[log[k].src]
      /\ connState[d] = "open"
      /\ EntryOf(connectedUsers, d) = userId[d]
      /\ log[k].src \notin DOMAIN connectedUsers
      /\ \A c \in { d, log[k].src } : \E a \in DOMAIN log :
           a < k /\ log[a].ev = "authenticated" /\ log[a].to = {c}

(* C25: an open socket has its userId set exactly when connectedUsers has  *)
(* an entry for it, the entry is that userId, and the keys of the map are  *)
(* exactly the open sockets whose userId is set.                           *)
C25_RegistryMatchesSessions ==
    /\ \A c \in Conn :
         connState[c] = "open" =>
           /\ (userId[c] # None <=> c \in DOMAIN connectedUsers)
           /\ EntryOf(connectedUsers, c) = userId[c]
    /\ DOMAIN connectedUsers = { c \in Conn : connState[c] = "open" /\ userId[c] # None }

(* C26: no step changes or removes a document of the collection: the       *)
(* collection after a step begins with the collection before it.           *)
C26_StoreAppendOnly ==
    [][ /\ Len(messages') >= Len(messages)
        /\ SubSeq(messages', 1, Len(messages)) = messages
      ]_vars

(* C26 witness: a message was stored and broadcast, a socket has closed    *)
(* with its user_left since, and the document is as it was built.          *)
C26_Witness ==
    \E i \in DOMAIN sends : \E k \in DOMAIN log :
      /\ StoredAt(i) # 0
      /\ messages[StoredAt(i)] = sends[i].msg
      /\ BroadcastAt(i) # 0
      /\ BroadcastAt(i) < k
      /\ log[k].ev = "user_left"
      /\ SubSeq(messages, 1, InitStored) = InitMessages

(* C27: the author of every message built by a handler is a user whose     *)
(* token was verified on the sending socket, with that user's nickname;    *)
(* the documents stored and the new_message events carry that message.     *)
C27_AuthorIsVerifiedIdentity ==
    /\ \A i \in DOMAIN sends :
         sends[i].pc # "rejected" =>
           /\ sends[i].msg.userId # None
           /\ sends[i].msg.nickname = Nick(sends[i].msg.userId)
           /\ \E j \in DOMAIN auths :
                /\ auths[j].conn = sends[i].conn
                /\ auths[j].id = sends[i].msg.userId
    /\ \A p \in DOMAIN messages :
         p > InitStored =>
           \E i \in DOMAIN sends : sends[i].pc # "rejected" /\ messages[p] = sends[i].msg
    /\ \A k \in DOMAIN log :
         log[k].ev = "new_message" =>
           /\ log[k].arg = sends[log[k].by[2]].msg
           /\ log[k].src = sends[log[k].by[2]].conn

(* C27 witness: two sockets hold different identities, and a message of    *)
(* one of them is stored and broadcast under its own.                      *)
C27_Witness ==
    \E i \in DOMAIN sends : \E d \in Conn :
      /\ StoredAt(i) # 0
      /\ BroadcastAt(i) # 0
      /\ d # sends[i].conn
      /\ userId[d] # None
      /\ userId[d] # userId[sends[i].conn]
      /\ messages[StoredAt(i)].userId = userId[sends[i].conn]

(* Socket c has a handler suspended in a call to the verifier or the store. *)
Suspended(c) ==
    \/ \E i \in DOMAIN auths :
         auths[i].conn = c /\ auths[i].pc \in { "findById", "save", "find" }
    \/ \E i \in DOMAIN sends :
         sends[i].conn = c /\ sends[i].pc \in { "save", "saved" }

(* C28: while a handler of one socket is suspended, every other socket can *)
(* close, and every pending call of another socket's handlers can return:  *)
(* its message can be stored and broadcast, its authenticate can go on.    *)
C28_OthersProgress ==
    \A c \in Conn :
      Suspended(c) =>
        /\ \A d \in Conn \ {c} : connState[d] = "open" => ENABLED Disconnect(d)
        /\ \A j \in DOMAIN sends :
             sends[j].conn # c =>
               /\ (sends[j].pc = "save" /\ Required(sends[j].msg.text)) =>
                    ENABLED SendStore(j)
               /\ sends[j].pc = "saved" => ENABLED SendBroadcast(j)
        /\ \A k \in DOMAIN auths :
             auths[k].conn # c =>
               /\ auths[k].pc = "findById" => ENABLED AuthFindById(k)
               /\ auths[k].pc = "save" => ENABLED AuthSaved(k)
               /\ auths[k].pc = "find" => ENABLED AuthHistory(k)

(* C28 witness: the first authenticate is still suspended in its lookup    *)
(* while another socket has authenticated, had a message stored and        *)
(* broadcast, and closed.                                                  *)
C28_Witness ==
    /\ Len(auths) = 2
    /\ auths[1].pc = "findById"
    /\ auths[2].pc = "done"
    /\ auths[2].conn # auths[1].conn
    /\ \E i \in DOMAIN sends :
         /\ sends[i].conn = auths[2].conn
         /\ sends[i].pc = "done"
         /\ StoredAt(i) # 0
         /\ BroadcastAt(i) # 0
    /\ connState[auths[2].conn] = "closed"
    /\ connState[auths[1].conn] = "open"

(* C29: every invocation of the authenticate handler ends with             *)
(* "authenticated" emitted or with its socket closed.                      *)
C29_AuthenticateEnds ==
    \A i \in 1..MaxAuth :
      (i \in DOMAIN auths) ~>
        (i \in DOMAIN auths
           /\ \/ EmitsBy(<<"auth", i>>, "authenticated") # {}
              \/ connState[auths[i].conn] = "closed")

(* C29 witness: an authenticate went through its three awaits and its      *)
(* socket, still open, was sent "authenticated".                           *)
C29_Witness ==
    \E i \in DOMAIN auths :
      /\ auths[i].pc = "done"
      /\ connState[auths[i].conn] = "open"
      /\ \E k \in EmitsBy(<<"auth", i>>, "authenticated") :
           log[k].to = { auths[i].conn }

(* C30 as stated: when user_left is emitted the map no longer holds the    *)
(* departing socket, and the socket is not among the recipients.           *)
C30_DeleteBeforeUserLeft ==
    \A k \in DOMAIN log :
      log[k].ev = "user_left" => (~log[k].inMap /\ log[k].src \notin log[k].to)

(* C30, amended: when user_left is emitted the map still holds the         *)
(* departing socket, which is not among the recipients; the entry is gone  *)
(* at the end of the step that emits it.                                   *)
C30_UserLeftBeforeDelete ==
    [][ \A k \in Added("user_left") :
          /\ log'[k].inMap
          /\ log'[k].src \in DOMAIN connectedUsers
          /\ log'[k].src \notin log'[k].to
          /\ log'[k].src \notin DOMAIN connectedUsers'
      ]_vars

(* C30 witness: a user_left emitted with the entry still in the map        *)
(* reached another socket, and the entry is gone.                          *)
C30_Witness ==
    \E k \in DOMAIN log :
      /\ log[k].ev = "user_left"
      /\ log[k].inMap
      /\ log[k].to # {}
      /\ log[k].src \notin DOMAIN connectedUsers

(* The log positions of the events ev announced for socket c.              *)
Announced(c, ev) == { k \in DOMAIN log : log[k].ev = ev /\ log[k].src = c }

(* C31: every user_left of a socket comes after exactly one user_joined    *)
(* of that socket, and no user_joined of a socket comes after its          *)
(* user_left; an authenticate that failed announced no user_joined.        *)
C31_JoinedLeftPaired ==
    /\ \A k \in DOMAIN log :
         log[k].ev = "user_left" =>
           /\ Cardinality({ j \in Announced(log[k].src, "user_joined") : j < k }) = 1
           /\ \A j \in Announced(log[k].src, "user_joined") : j < k
    /\ \A i \in DOMAIN auths :
         auths[i].pc = "failed" => EmitsBy(<<"auth", i>>, "user_joined") = {}

(* The documents of a message_history event.                               *)
HistoryIds(k) == { log[k].arg[p].id : p \in DOMAIN log[k].arg }

(* C32: when an authenticate has ended on a socket that is open and got    *)
(* its message_history, every message stored and broadcast so far is in    *)
(* that history or was sent to the socket as new_message after it.         *)
C32_NoMessageLostAcrossJoin ==
    \A i \in DOMAIN auths :
      (auths[i].pc = "done" /\ connState[auths[i].conn] = "open") =>
        \A h \in EmitsBy(<<"auth", i>>, "message_history") :
          log[h].to = { auths[i].conn } =>
            \A j \in DOMAIN sends :
              (StoredAt(j) # 0 /\ BroadcastAt(j) # 0) =>
                \/ sends[j].msg.id \in HistoryIds(h)
                \/ /\ BroadcastAt(j) > h
                   /\ auths[i].conn \in log[BroadcastAt(j)].to

(* C33: every new_message carries a document that is in the collection,    *)
(* no message is announced twice, and a message whose handler has ended    *)
(* was announced once if it is stored and not at all if it is not.         *)
C33_BroadcastIffStoredOnce ==
    /\ \A k \in DOMAIN log :
         log[k].ev = "new_message" =>
           /\ \E p \in DOMAIN messages : messages[p] = log[k].arg
           /\ \A x \in DOMAIN log :
                (log[x].ev = "new_message" /\ log[x].arg.id = log[k].arg.id) => x = k
    /\ \A i \in DOMAIN sends :
         /\ sends[i].pc = "done" =>
              StoredAt(i) # 0 /\ Cardinality(EmitsBy(<<"send", i>>, "new_message")) = 1
         /\ sends[i].pc \in { "failed", "rejected" } =>
              StoredAt(i) = 0 /\ EmitsBy(<<"send", i>>, "new_message") = {}
         /\ StoredAt(i) = 0 => EmitsBy(<<"send", i>>, "new_message") = {}

(* C33 witness: two messages are stored and each was announced once, to    *)
(* some socket; the collection holds no other new document.                *)
C33_Witness ==
    /\ Len(sends) = 2
    /\ Len(messages) = InitStored + 2
    /\ \A i \in DOMAIN sends :
         /\ sends[i].pc = "done"
         /\ StoredAt(i) # 0
         /\ Cardinality(EmitsBy(<<"send", i>>, "new_message")) = 1
         /\ log[BroadcastAt(i)].to # {}

(* The events new_message and error emitted by invocation i of the         *)
(* send_message handler.                                                   *)
Outcomes(i) == EmitsBy(<<"send", i>>, "new_message") \cup EmitsBy(<<"send", i>>, "error")

(* C34: a send_message that passed the guard never has two outcomes, and   *)
(* it ends with one: a new_message or an error.                            *)
C34_SendEndsInOneOutcome ==
    /\ [](\A i \in DOMAIN sends :
            sends[i].pc # "rejected" => Cardinality(Outcomes(i)) <= 1)
    /\ \A i \in 1..MaxSend :
         (i \in DOMAIN sends /\ sends[i].pc # "rejected") ~>
           (i \in DOMAIN sends /\ sends[i].pc \in { "done", "failed" }
              /\ Cardinality(Outcomes(i)) = 1)

(* C34 witness: an accepted send_message has ended with its new_message,   *)
(* which reached its sender, and with no error.                            *)
C34_Witness ==
    \E i \in DOMAIN sends :
      /\ sends[i].pc = "done"
      /\ \E k \in EmitsBy(<<"send", i>>, "new_message") : sends[i].conn \in log[k].to
      /\ EmitsBy(<<"send", i>>, "error") = {}
      /\ Cardinality(Outcomes(i)) = 1
====
